---- MODULE Spec2Model ----
(***************************************************************************)
(* Verification model of the Escoffier scenario orchestration core:        *)
(*   - KitchenEngine (src/kitchen/engine.py): stations, occupancy, the     *)
(*     simulation tick and reset_kitchen;                                  *)
(*   - ScenarioExecutor (src/scenarios/executor.py): execute_scenario, the *)
(*     phase loop, the parallel / sequential task batches, the scores, and *)
(*     the registry of runs with cleanup().                                *)
(* The injected collaborators (agent manager, task generator, database,    *)
(* event handlers) are the environment: each of their calls may return,    *)
(* raise an Exception or, for the actor call, not return.                  *)
(***************************************************************************)
EXTENDS Integers, Sequences, FiniteSets, TLC

\* ------------------------------------------------------------------------
\* Bounds of the model
\* ------------------------------------------------------------------------
NumKitchenAgents == 3
MaxAgents == 2
MaxTasks == 3
MaxRecipes == 1
MaxBatchAgents == 5
MaxBatchTasks == 6
MaxCount == 4
NumRuns == 2
NumActiveAgents == 1
NumLoops == 2

\* ------------------------------------------------------------------------
\* KitchenEngine
\* ------------------------------------------------------------------------
NoLocation == "none"
NoTask == "no_task"
NoAgent == "nobody"

\* Stations of the kitchen kept in the model: one per distinct capacity, and
\* a second station of capacity 2 so that more than RushThreshold agents fit.
Stations == {"prep", "grill", "saute", "expedite"}

\* KitchenLocation values an agent row can carry that are not stations here.
OtherLocations == {"stock"}

max_capacity == [s \in Stations |->
                   CASE s = "prep" -> 3
                     [] s = "grill" -> 2
                     [] s = "saute" -> 2
                     [] s = "expedite" -> 1]

\* the occupant count up to which the kitchen is in SERVICE and not in RUSH
RushThreshold == 6

KitchenAgents == 1..NumKitchenAgents

\* Agent rows of a fully staffed kitchen: rows 1..RushThreshold are staff
\* whose row is not active (the tick never visits them), the others are
\* the active agents.
StaffAgents == 1..RushThreshold
ActiveAgents == (RushThreshold + 1)..(RushThreshold + NumActiveAgents)
EnvAgents == StaffAgents \cup ActiveAgents

\* the station a staff row was moved to while it was active
Seat(i) == IF i <= 3 THEN "prep" ELSE IF i <= 5 THEN "grill" ELSE "expedite"

\* Equipment kept in the model, one piece per station, and its station
EquipmentNames == {"cutting_board", "gas_grill", "gas_burners", "heat_lamps"}

\* "oven" in equipment.name or "grill" in equipment.name
IsHeatSource(e) == e = "gas_grill"

\* "burner" in equipment.name or "pot" in equipment.name
IsSteamSource(e) == e = "gas_burners"

\* Equipment.condition is kept as the band it lies in: "band" is a value
\* drawn by random.uniform(0.8, 1.0), "worn" a value lowered since then.
NewEquipment ==
  [is_available |-> TRUE, condition |-> "band", in_use_by |-> NoAgent,
   maintenance_required |-> FALSE]

\* KitchenStation.cleanliness is kept as 1.0 ("clean") or below ("used")
Clean == "clean"
Used == "used"

\* EnvironmentalConditions(): temperature in Celsius, humidity in percent,
\* noise_level and rush_multiplier in tenths
DefaultConditions ==
  [temperature |-> 22, humidity |-> 60, noise_level |-> 5, rush_multiplier |-> 10]

VARIABLES current_agents, current_location, kstate, crisis_active,
          conditions, cleanliness, equipment, is_running, loop_pc

simVars == <<is_running, loop_pc>>

kitchenVars == <<current_agents, current_location, kstate, crisis_active,
                 conditions, cleanliness, equipment, simVars>>

\* a station counts as full only once it is over capacity
IsFullOffByOne(occ, s) == Cardinality(occ[s]) > max_capacity[s]

\* KitchenStation.is_full
IsFull(occ, s) == Cardinality(occ[s]) >= max_capacity[s]

\* a removal without the membership test: set.remove raises KeyError
RemoveAgentUnguarded(occ, s, a) ==
  IF s \in Stations
  THEN [occ |-> [occ EXCEPT ![s] = @ \ {a}], raised |-> a \notin occ[s]]
  ELSE [occ |-> occ, raised |-> FALSE]

\* _move_agent_to_station, "Remove from current station": agent a leaves the
\* occupant set of the location s its row names.
RemoveAgent(occ, s, a) ==
  IF s \in Stations /\ a \in occ[s]
  THEN [occ |-> [occ EXCEPT ![s] = @ \ {a}], raised |-> FALSE]
  ELSE [occ |-> occ, raised |-> FALSE]

\* _move_agent_to_station on the pair (occupant sets, agent locations); an
\* exception is caught by _process_agent_tick.
MoveAgentToStation(k, a, target) ==
  LET r == RemoveAgent(k.occ, k.loc[a], a)
      occ1 == r.occ
  IN IF r.raised THEN k
     ELSE IF target \in Stations /\ ~IsFull(occ1, target)
     THEN [occ |-> [occ1 EXCEPT ![target] = @ \cup {a}],
           loc |-> [k.loc EXCEPT ![a] = target]]
     ELSE [occ |-> occ1, loc |-> k.loc]

\* _process_agent_actions: the agents are visited in id order; an agent
\* whose in-progress task maps to a station is moved there.
RECURSIVE ProcessAgentActions(_, _, _)
ProcessAgentActions(k, targets, a) ==
  IF a \notin DOMAIN targets THEN k
  ELSE ProcessAgentActions(
         IF targets[a] = NoTask THEN k ELSE MoveAgentToStation(k, a, targets[a]),
         targets, a + 1)

\* total_agents of _update_environment: the sum of the occupant counts
TotalAgents(occ) ==
  Cardinality(occ["prep"]) + Cardinality(occ["grill"])
    + Cardinality(occ["saute"]) + Cardinality(occ["expedite"])

\* _update_environment: operating mode from the total number of occupants.
UpdateEnvironmentState(total) ==
  IF total = 0 THEN "idle"
  ELSE IF total <= 3 THEN "prep"
  ELSE IF total <= RushThreshold THEN "service"
  ELSE "rush"

\* a multiplier that grows by 0.1 for each occupant above the threshold
RushMultiplierTenth(cond, total) ==
  IF total > RushThreshold THEN 10 + (total - RushThreshold)
  ELSE cond.rush_multiplier

\* _update_environment: conditions.rush_multiplier is assigned in the RUSH
\* branch only
RushMultiplier(cond, total) ==
  IF total > RushThreshold THEN 10 + (total - RushThreshold) * 2
  ELSE cond.rush_multiplier

\* _update_environment: the conditions from the equipment in use and the
\* occupants
UpdateEnvironment(cond, occ, eq) ==
  LET heat == Cardinality({e \in EquipmentNames :
                             eq[e].in_use_by # NoAgent /\ IsHeatSource(e)})
      steam == Cardinality({e \in EquipmentNames :
                              eq[e].in_use_by # NoAgent /\ IsSteamSource(e)})
      total == TotalAgents(occ)
      temp == 22 + heat * 2
      hum == 60 + steam * 3
  IN [temperature |-> IF temp < 35 THEN temp ELSE 35,
      humidity |-> IF hum < 80 THEN hum ELSE 80,
      noise_level |-> IF total < 10 THEN total ELSE 10,
      rush_multiplier |-> RushMultiplier(cond, total)]

\* _update_equipment: a piece in use wears, and a worn piece may break down
\* (brk); no operation of the engine sets in_use_by.
UpdateEquipment(eq, brk) ==
  [e \in EquipmentNames |->
     IF eq[e].in_use_by # NoAgent
     THEN [eq[e] EXCEPT !.condition = "worn",
                        !.is_available = IF brk THEN FALSE ELSE @,
                        !.maintenance_required = IF brk THEN TRUE ELSE @]
     ELSE eq[e]]

\* the breakdown draws _update_equipment can make
BreakdownDraws(eq) ==
  IF \E e \in EquipmentNames : eq[e].in_use_by # NoAgent THEN BOOLEAN ELSE {FALSE}

\* _update_equipment: the cleanliness of an occupied station decreases
UpdateCleanliness(cl, occ) ==
  [s \in Stations |-> IF occ[s] # {} THEN Used ELSE cl[s]]

\* _handle_crisis_events: draw tells whether the random draw of the branch
\* taken succeeds (the crisis is resolved, or a crisis is triggered)
HandleCrisis(active, st, draw) ==
  IF active THEN ~draw
  ELSE st \in {"service", "rush"} /\ draw

\* the random draws _handle_crisis_events can make in a state
CrisisDraws(active, st) ==
  IF active \/ st \in {"service", "rush"} THEN BOOLEAN ELSE {FALSE}

\* calls of start_simulation on the engine
Loops == 1..NumLoops

\* KitchenEngine.__init__
EngineInit ==
  /\ current_agents = [s \in Stations |-> {}]
  /\ kstate = "idle"
  /\ crisis_active = FALSE
  /\ conditions = DefaultConditions
  /\ cleanliness = [s \in Stations |-> Clean]
  /\ equipment = [e \in EquipmentNames |-> NewEquipment]
  /\ is_running = FALSE
  /\ loop_pc = [l \in Loops |-> "new"]

KitchenInit ==
  /\ EngineInit
  /\ current_location \in [KitchenAgents -> OtherLocations \cup {NoLocation}]

\* the in-progress tasks the agent rows can have in one tick
KitchenTargets == [KitchenAgents -> {"prep", "grill", "expedite", NoTask}]

\* _simulation_tick, the in-progress tasks drawn from T
Tick(T) ==
  LET cond == UpdateEnvironment(conditions, current_agents, equipment)
      st == UpdateEnvironmentState(TotalAgents(current_agents)) IN
  \E targets \in T, brk \in BreakdownDraws(equipment),
     draw \in CrisisDraws(crisis_active, st) :
    LET k == ProcessAgentActions([occ |-> current_agents, loc |-> current_location],
                                 targets, 1)
    IN /\ kstate' = st
       /\ conditions' = cond
       /\ current_agents' = k.occ
       /\ current_location' = k.loc
       /\ equipment' = UpdateEquipment(equipment, brk)
       /\ cleanliness' = UpdateCleanliness(cleanliness, k.occ)
       /\ crisis_active' = HandleCrisis(crisis_active, st, draw)

\* _simulation_tick called on its own
SimulationTick == Tick(KitchenTargets) /\ UNCHANGED simVars

\* a reset that keeps the conditions of the kitchen it resets
ResetFieldsKeepConditions ==
  /\ kstate' = "idle"
  /\ conditions' = conditions
  /\ crisis_active' = FALSE
  /\ current_agents' = [s \in Stations |-> {}]
  /\ cleanliness' = [s \in Stations |-> Clean]
  /\ equipment' = [e \in EquipmentNames |-> NewEquipment]

\* reset_kitchen: the fields of the engine it assigns
ResetFields ==
  /\ kstate' = "idle"
  /\ conditions' = DefaultConditions
  /\ crisis_active' = FALSE
  /\ current_agents' = [s \in Stations |-> {}]
  /\ cleanliness' = [s \in Stations |-> Clean]
  /\ equipment' = [e \in EquipmentNames |-> NewEquipment]

\* reset_kitchen
ResetKitchen ==
  /\ ResetFields
  /\ UNCHANGED <<current_location, simVars>>

\* A staffed kitchen at rest: the first n staff rows were moved to their
\* stations while active, and a tick has passed since.
StaffedKitchen(n) ==
  LET occ == [s \in Stations |-> {i \in 1..n : Seat(i) = s}]
      eq == [e \in EquipmentNames |-> NewEquipment] IN
  /\ current_agents = occ
  /\ current_location = [a \in EnvAgents |-> IF a <= n THEN Seat(a) ELSE NoLocation]
  /\ kstate = UpdateEnvironmentState(TotalAgents(occ))
  /\ conditions = UpdateEnvironment(DefaultConditions, occ, eq)
  /\ cleanliness = UpdateCleanliness([s \in Stations |-> Clean], occ)
  /\ equipment = eq
  /\ crisis_active = FALSE
  /\ is_running = FALSE
  /\ loop_pc = [l \in Loops |-> "new"]

\* the in-progress tasks of a tick of the staffed kitchen: the rows that are
\* not active are not visited
EnvTargets ==
  {[a \in EnvAgents |-> IF a \in ActiveAgents THEN f[a] ELSE NoTask] :
     f \in [ActiveAgents -> Stations \cup {NoTask}]}

\* _simulation_tick of the staffed kitchen
EnvTick == Tick(EnvTargets) /\ UNCHANGED simVars

tickVars == <<current_agents, current_location, kstate, crisis_active,
              conditions, cleanliness, equipment>>

\* the in-progress tasks of a tick of the simulation loop
SimTargets == [KitchenAgents -> {"prep", NoTask}]

\* start_simulation up to its first asyncio.sleep: a call made while
\* is_running is set returns at once, another sets it and runs a tick.
StartSimulation(l) ==
  /\ loop_pc[l] = "new"
  /\ IF is_running
     THEN /\ loop_pc' = [loop_pc EXCEPT ![l] = "returned"]
          /\ UNCHANGED <<is_running, tickVars>>
     ELSE /\ is_running' = TRUE
          /\ loop_pc' = [loop_pc EXCEPT ![l] = "sleeping"]
          /\ Tick(SimTargets)

\* start_simulation resumed from asyncio.sleep: the loop test, then either
\* the next tick or the finally clause.
LoopResume(l) ==
  /\ loop_pc[l] = "sleeping"
  /\ IF is_running
     THEN /\ Tick(SimTargets)
          /\ UNCHANGED simVars
     ELSE /\ is_running' = FALSE
          /\ loop_pc' = [loop_pc EXCEPT ![l] = "returned"]
          /\ UNCHANGED tickVars

\* stop_simulation
StopSimulation ==
  /\ is_running' = FALSE
  /\ UNCHANGED <<loop_pc, tickVars>>

\* ------------------------------------------------------------------------
\* ScenarioExecutor
\* ------------------------------------------------------------------------
Phases == <<"setup", "preparation", "cooking", "plating", "service", "cleanup">>

\* ScenarioConfig.max_concurrent_agents (default)
max_concurrent_agents == 4

\* the concurrency cap of _execute_tasks_parallel
ParallelCap == 4

\* number of tasks of the cleanup phase
NumCleanupTasks == 3

Min(a, b) == IF a < b THEN a ELSE b

\* the longest task list of a batch
MaxBatch == IF MaxTasks > NumCleanupTasks THEN MaxTasks ELSE NumCleanupTasks

InFlight == {"calling"}
Resolved == {"ok", "exc", "cancelled"}

VARIABLES cfg, pc, status, phaseIdx, entered, agents, perf,
          tasks_completed, tasks_failed, error_log,
          bmode, tstate, gstart, total_completed, total_failed,
          base_completed, base_failed, timed_out_groups,
          efficiency_score, quality_score, crisis_events, wiring, faults

\* the scores and the crisis list of the ExecutionResult
scoreVars == <<efficiency_score, quality_score, crisis_events>>

\* the collaborators the executor is wired with, and whether one of them has
\* failed (raised, or let the group timeout pass) so far in the run
envVars == <<wiring, faults>>

execVars == <<cfg, pc, status, phaseIdx, entered, agents, perf,
              tasks_completed, tasks_failed, error_log,
              bmode, tstate, gstart, total_completed, total_failed,
              base_completed, base_failed, timed_out_groups,
              scoreVars, envVars>>

\* the executor's registry of runs: self.active_scenarios, self.execution_results
\* and the ExecutionResult of every call of execute_scenario
VARIABLES active_scenarios, execution_results, runs, execution_metrics,
          current_result

runVars == <<active_scenarios, execution_results, runs, execution_metrics,
             current_result>>

vars == <<kitchenVars, execVars, runVars>>

\* ScenarioConfig.time_pressure (default 1.0) and the values used, in tenths
DefaultTimePressure == 10
TimePressures == {10, 15}

\* ScenarioConfig.crisis_probability (default 0.1), in tenths
DefaultCrisisProbability == 1

\* the configurations of a full run: no time pressure, no crisis
Configs == [max_agents : 0..MaxAgents, pool : 0..MaxAgents,
            parallel_tasks : BOOLEAN, recipes : 0..MaxRecipes,
            time_pressure : {DefaultTimePressure}, crisis_probability : {0}]

\* an entry of result.agent_performances: of its counters the model keeps
\* tasks_completed, the one the executor reads back
ZeroPerf == [completed |-> 0]

\* a score is a fraction num / den with den > 0; 0.0 is the dataclass default
ZeroScore == [num |-> 0, den |-> 1]

\* The collaborators of the executor. "repository": the AgentManager and the
\* RecipeTaskGenerator of this repository, which have no execute_agent_action
\* and no generate_prep_tasks / generate_cooking_tasks, so that these calls
\* of the executor raise AttributeError. "substitute": objects that provide
\* the methods the executor calls.
Wirings == {"repository", "substitute"}

\* self.agent_manager.execute_agent_action(...): the attribute lookup raises
\* AttributeError on the repository's AgentManager
ActorCallRaises(w) == w = "repository"

\* self.task_generator.generate_prep_tasks / generate_cooking_tasks: called
\* for a cached recipe, the lookup raises AttributeError on the repository's
\* RecipeTaskGenerator
GeneratorRaises(w, c) == w = "repository" /\ c.recipes > 0

\* the lengths the task list of PREPARATION / COOKING can have: no task
\* unless a recipe is cached and the generator produces some
GeneratedTasks(w, c) == IF c.recipes = 0 \/ w = "repository" THEN {0} ELSE 0..MaxTasks

\* _maybe_trigger_crisis, called in COOKING when crisis_probability > 0: the
\* number of crisis events the random draw can add to result.crisis_events
MaybeTriggerCrisis(ph, c) ==
  IF ph = "cooking" /\ c.crisis_probability > 0 THEN {0, 1} ELSE {0}

\* min(1.0, max(0.0, x)) on a fraction
Clamp01(s) ==
  IF s.num < 0 THEN [num |-> 0, den |-> s.den]
  ELSE IF s.num > s.den THEN [num |-> s.den, den |-> s.den]
  ELSE s

\* _execute_service_phase: 0.8 - (tasks_failed / max(1, tasks_completed)) * 0.3
\* - (time_pressure - 1.0) * 0.2, clamped to [0, 1]; as a fraction over
\* 100 * max(1, tasks_completed)
ServiceQuality(tc, tf, tp) ==
  LET m == IF tc > 1 THEN tc ELSE 1
      fail == IF tf > 0 THEN 30 * tf ELSE 0
      press == IF tp > 10 THEN 2 * (tp - 10) * m ELSE 0
  IN Clamp01([num |-> 80 * m - fail - press, den |-> 100 * m])

\* the efficiency is taken over the completed tasks only
CalculateEfficiencyOfCompleted(tc, tf) ==
  [num |-> tc, den |-> IF tc > 1 THEN tc ELSE 1]

\* _calculate_final_scores: efficiency_score
CalculateEfficiency(tc, tf) ==
  IF tc + tf > 0 THEN [num |-> tc, den |-> tc + tf] ELSE ZeroScore

\* _execute_setup_phase: agents_needed
AgentsNeeded(c) == Min(c.max_agents, max_concurrent_agents)

\* _execute_setup_phase: available_agents[:agents_needed]
AvailableAgents(c) == Min(c.pool, AgentsNeeded(c))

\* _execute_setup_phase: the RuntimeError("No agents with available LLM providers found")
SetupRaises(c) == AvailableAgents(c) < AgentsNeeded(c) /\ AvailableAgents(c) = 0

\* the concurrency limit ignores the number of agents
MaxConcurrentUncapped(n) == ParallelCap

\* _execute_tasks_parallel: max_concurrent
MaxConcurrent(n) == Min(n, ParallelCap)

\* last task index of the group that starts at g
GroupEnd(g, n, nagents) == Min(g + MaxConcurrent(nagents) - 1, n)

GroupOf(g, n, nagents) == g..GroupEnd(g, n, nagents)

\* round-robin assignment: parallel, within the group; sequential, over the list
AgentOf(m, i, g, nagents) ==
  IF m = "par" THEN ((i - g) % nagents) + 1 ELSE ((i - 1) % nagents) + 1

NewTask == [co |-> "queued", rec |-> "none", agent |-> 0, logged |-> FALSE]

\* asyncio.create_task for the tasks S of the group that starts at g; each new
\* task runs at once up to its first suspension: assign_task raises for the
\* tasks in F, and for the others stores the task row (PENDING) and leaves the
\* task waiting for the actor call. The sequential loop appends the error-log
\* entry of a failed task at once, the parallel one after the gather.
CreateTasks(ts, S, F, m, g, nagents) ==
  [i \in DOMAIN ts |->
     IF i \notin S THEN ts[i]
     ELSE IF i \in F
     THEN [co |-> "exc", rec |-> "none", agent |-> AgentOf(m, i, g, nagents),
           logged |-> (m = "seq")]
     ELSE IF ActorCallRaises(wiring)
     THEN [co |-> "exc", rec |-> "failed", agent |-> AgentOf(m, i, g, nagents),
           logged |-> (m = "seq")]
     ELSE [co |-> "calling", rec |-> "pending", agent |-> AgentOf(m, i, g, nagents),
           logged |-> FALSE]]

CountCo(ts, S, states) == Cardinality({i \in S : ts[i].co \in states})

\* the timeout abandons the group without cancelling and awaiting its tasks
AbandonWithoutWait(ts, S) == ts

\* asyncio.wait_for on timeout: the gather is cancelled and awaited, so every
\* task of the group that has not finished ends cancelled before TimeoutError
\* is raised.
CancelAndWait(ts, S) ==
  [i \in DOMAIN ts |-> IF i \in S /\ ts[i].co \in InFlight
                       THEN [ts[i] EXCEPT !.co = "cancelled"] ELSE ts[i]]

\* the TimeoutError handler: len([f for f in batch_futures if not f.done()])
TimeoutNotDone(ts, S) == CountCo(ts, S, InFlight)

\* the gather fails fast: it is over as soon as one task has raised
GatherDoneFailFast(ts, S) ==
  \/ \A i \in S : ts[i].co \in Resolved
  \/ \E i \in S : ts[i].co = "exc"

\* asyncio.gather(..., return_exceptions=True) is over when every task of the
\* group has finished, whether it returned or raised
GatherDone(ts, S) == \A i \in S : ts[i].co \in Resolved

\* the result loop after gather: isinstance(task_result, Exception)
GatherFailed(ts, S) == CountCo(ts, S, {"exc"})
GatherCompleted(ts, S) == Cardinality(S) - GatherFailed(ts, S)

\* the result loop after gather: result.error_log.append for every task of
\* the group whose result is an Exception
LogFailed(ts, S) ==
  [i \in DOMAIN ts |-> IF i \in S /\ ts[i].co = "exc"
                       THEN [ts[i] EXCEPT !.logged = TRUE] ELSE ts[i]]

\* the agent performance summary loop: one increment of result.tasks_completed
\* for every agent whose perf['tasks_completed'] > 0
SummaryIncrement(pf, nagents) == Cardinality({a \in 1..nagents : pf[a].completed > 0})

\* execute_scenario: "if result.status == RUNNING: result.status = COMPLETED"
FinalizeStatus(st) == IF st = "RUNNING" THEN "COMPLETED" ELSE st

\* the handler leaves the status as it was
ExceptStatusUnset == "RUNNING"

\* execute_scenario: the status set by "except Exception"
ExceptStatus == "FAILED"

\* the loop steps over a phase
NextPhaseIndexSkip(i) == i + 2

\* the phase loop: index of the phase after phase i
NextPhaseIndex(i) == i + 1

ExecInit ==
  /\ cfg \in Configs
  /\ pc = "idle"
  /\ status = "none"
  /\ phaseIdx = 0
  /\ entered = <<>>
  /\ agents = 0
  /\ perf = [a \in 1..MaxAgents |-> ZeroPerf]
  /\ tasks_completed = 0
  /\ tasks_failed = 0
  /\ error_log = 0
  /\ bmode = "none"
  /\ tstate = <<>>
  /\ gstart = 0
  /\ total_completed = 0
  /\ total_failed = 0
  /\ base_completed = 0
  /\ base_failed = 0
  /\ timed_out_groups = 0
  /\ efficiency_score = ZeroScore
  /\ quality_score = ZeroScore
  /\ crisis_events = 0
  /\ wiring \in Wirings
  /\ faults = FALSE

\* the executor at rest, while the kitchen is exercised
ExecIdle ==
  /\ ExecInit
  /\ cfg = [max_agents |-> 0, pool |-> 0, parallel_tasks |-> FALSE, recipes |-> 0,
            time_pressure |-> DefaultTimePressure, crisis_probability |-> 0]
  /\ wiring = "repository"

\* the kitchen as constructed, with no agent row located anywhere
KitchenIdle ==
  /\ KitchenInit
  /\ current_location = [a \in KitchenAgents |-> NoLocation]

\* calls of execute_scenario on one executor, and the scenario ids they use
Runs == 1..NumRuns
ScenarioIds == {"s1", "s2"}
NoRun == 0

\* a call of execute_scenario that has not been made yet
NewRun == [id |-> "none", pc |-> "idle", status |-> "none", phase |-> 0,
           returned_status |-> "none", messages_sent |-> 0, cleaned |-> FALSE]

\* ScenarioExecutor.__init__: no scenario is active, no result is stored
RunsInit ==
  /\ active_scenarios = {}
  /\ execution_results = [i \in ScenarioIds |-> NoRun]
  /\ runs = [r \in Runs |-> NewRun]
  /\ execution_metrics = [total_scenarios |-> 0, successful_scenarios |-> 0,
                          failed_scenarios |-> 0]
  /\ current_result = NoRun

InitExec == KitchenIdle /\ ExecInit /\ RunsInit

\* one call of _execute_tasks_parallel, in PREPARATION, of a run whose
\* configuration admits up to MaxBatchAgents agents (max_concurrent_agents
\* raised accordingly): the state in which the task list is handed over
BatchEntry ==
  /\ agents \in 1..MaxBatchAgents
  /\ cfg = [max_agents |-> agents, pool |-> agents, parallel_tasks |-> TRUE, recipes |-> 1,
            time_pressure |-> DefaultTimePressure, crisis_probability |-> 0]
  /\ pc = "call"
  /\ status = "RUNNING"
  /\ phaseIdx = 2
  /\ entered = <<"setup", "preparation">>
  /\ perf = [a \in 1..MaxBatchAgents |-> ZeroPerf]
  /\ tasks_completed = 0
  /\ tasks_failed = 0
  /\ error_log = 0
  /\ bmode = "none"
  /\ tstate = <<>>
  /\ gstart = 0
  /\ total_completed = 0
  /\ total_failed = 0
  /\ base_completed = 0
  /\ base_failed = 0
  /\ timed_out_groups = 0
  /\ efficiency_score = ZeroScore
  /\ quality_score = ZeroScore
  /\ crisis_events = 0
  /\ wiring = "substitute"
  /\ faults = FALSE

InitBatch == KitchenIdle /\ BatchEntry /\ RunsInit

InitRuns == KitchenIdle /\ ExecIdle /\ RunsInit

\* the executor wired with substitutes of the collaborators, no run started
InitTrack ==
  /\ KitchenIdle
  /\ ExecInit
  /\ cfg = [max_agents |-> 0, pool |-> 0, parallel_tasks |-> FALSE, recipes |-> 0,
            time_pressure |-> DefaultTimePressure, crisis_probability |-> 0]
  /\ wiring = "substitute"
  /\ RunsInit

\* a run about to enter SERVICE: any counters, any time pressure
ServiceEntry ==
  /\ cfg \in [max_agents : {1}, pool : {1}, parallel_tasks : {FALSE}, recipes : 0..1,
               time_pressure : TimePressures, crisis_probability : {0}]
  /\ pc = "loop"
  /\ status = "RUNNING"
  /\ phaseIdx = 5
  /\ entered = <<"setup", "preparation", "cooking", "plating">>
  /\ agents = 1
  /\ perf = [a \in 1..MaxAgents |-> ZeroPerf]
  /\ tasks_completed \in 0..MaxCount
  /\ tasks_failed \in 0..MaxCount
  /\ error_log = tasks_failed
  /\ bmode = "none"
  /\ tstate = <<>>
  /\ gstart = 0
  /\ total_completed = 0
  /\ total_failed = 0
  /\ base_completed = 0
  /\ base_failed = 0
  /\ timed_out_groups = 0
  /\ efficiency_score = ZeroScore
  /\ quality_score = ZeroScore
  /\ crisis_events = 0
  /\ wiring = "substitute"
  /\ faults = (tasks_failed > 0)

InitService == KitchenIdle /\ ServiceEntry /\ RunsInit

\* a run about to enter COOKING with the default crisis probability and no
\* agent, next to a kitchen in any state
CookingEntry ==
  /\ cfg = [max_agents |-> 0, pool |-> 0, parallel_tasks |-> FALSE, recipes |-> 0,
            time_pressure |-> DefaultTimePressure,
            crisis_probability |-> DefaultCrisisProbability]
  /\ pc = "loop"
  /\ status = "RUNNING"
  /\ phaseIdx = 3
  /\ entered = <<"setup", "preparation">>
  /\ agents = 0
  /\ perf = [a \in 1..MaxAgents |-> ZeroPerf]
  /\ tasks_completed = 0
  /\ tasks_failed = 0
  /\ error_log = 0
  /\ bmode = "none"
  /\ tstate = <<>>
  /\ gstart = 0
  /\ total_completed = 0
  /\ total_failed = 0
  /\ base_completed = 0
  /\ base_failed = 0
  /\ timed_out_groups = 0
  /\ efficiency_score = ZeroScore
  /\ quality_score = ZeroScore
  /\ crisis_events = 0
  /\ wiring = "repository"
  /\ faults = FALSE

InitCrisis == KitchenInit /\ CookingEntry /\ RunsInit

InitKitchen == KitchenInit /\ ExecIdle /\ RunsInit

InitEnv == (\E n \in 0..RushThreshold : StaffedKitchen(n)) /\ ExecIdle /\ RunsInit

InitSim == KitchenIdle /\ ExecIdle /\ RunsInit

resultVars == <<tasks_completed, tasks_failed, error_log>>
batchVars == <<bmode, tstate, gstart, total_completed, total_failed,
               base_completed, base_failed, timed_out_groups>>

\* An exception leaves the phase: _execute_phase logs it and re-raises,
\* execute_scenario's "except Exception" sets the status and logs it again,
\* "finally" drops the active scenario and the result is returned.
RaiseOut ==
  /\ status' = ExceptStatus
  /\ error_log' = error_log + 2
  /\ pc' = "returned"

\* execute_scenario up to the phase loop
StartScenario ==
  /\ pc = "idle"
  /\ status' = "RUNNING"
  /\ phaseIdx' = 1
  /\ pc' = "loop"
  /\ UNCHANGED <<cfg, entered, agents, perf, resultVars, batchVars, scoreVars, envVars,
                 kitchenVars, runVars>>

\* the tasks S (the group that starts at g) are created and start running;
\* fl tells whether a collaborator has failed up to here
Dispatch(ts, S, m, g, pf, fl) ==
  \E F \in SUBSET S :
    LET ts1 == CreateTasks(ts, S, F, m, g, agents) IN
    /\ tstate' = ts1
    /\ perf' = pf
    /\ gstart' = g
    /\ faults' = (fl \/ F # {})

\* the loop of _execute_tasks_sequential from task i on, up to its next
\* suspension: the tasks i..j-1 fail (those of F in assign_task, the others in
\* the actor call) and are counted failed, and task j waits for its actor
\* call; or the list ends
SeqAdvance(ts, i, pf, tc, tf, el, fl) ==
  \E j \in i..(Len(ts) + 1) :
    \E F \in SUBSET (i..(j - 1)) :
      LET S == i..Min(j, Len(ts))
          ts1 == CreateTasks(ts, S, F, "seq", 1, agents)
      IN /\ IF ActorCallRaises(wiring) THEN j = Len(ts) + 1 ELSE F = i..(j - 1)
         /\ tstate' = ts1
         /\ perf' = pf
         /\ gstart' = Min(j, Len(ts))
         /\ tasks_completed' = tc
         /\ tasks_failed' = tf + (j - i)
         /\ error_log' = el + (j - i)
         /\ faults' = (fl \/ F # {})
         /\ pc' = IF j <= Len(ts) THEN "seqawait" ELSE "tail"

\* entry of _execute_tasks_parallel / _execute_tasks_sequential with n tasks
StartBatch(n, m) ==
  LET fresh == [i \in 1..n |-> NewTask] IN
  /\ bmode' = m
  /\ base_completed' = tasks_completed
  /\ base_failed' = tasks_failed
  /\ total_completed' = 0
  /\ total_failed' = 0
  /\ timed_out_groups' = 0
  /\ IF agents = 0
     THEN /\ tstate' = fresh /\ gstart' = 0 /\ pc' = "tail"
          /\ UNCHANGED <<perf, resultVars, faults>>
     ELSE IF m = "par"
     THEN /\ IF n = 0
             THEN tstate' = fresh /\ gstart' = 0 /\ pc' = "summary" /\ UNCHANGED <<perf, faults>>
             ELSE Dispatch(fresh, GroupOf(1, n, agents), m, 1, perf, faults) /\ pc' = "await"
          /\ UNCHANGED resultVars
     ELSE SeqAdvance(fresh, 1, perf, tasks_completed, tasks_failed, error_log, faults)

AtPhase(ph) == pc = "loop" /\ phaseIdx \in 1..Len(Phases) /\ Phases[phaseIdx] = ph

\* _execute_phase(SETUP): _execute_setup_phase
SetupPhase ==
  /\ AtPhase("setup")
  /\ entered' = Append(entered, "setup")
  /\ \E collaborator_raises \in BOOLEAN :
       /\ IF collaborator_raises \/ SetupRaises(cfg)
          THEN /\ RaiseOut
               /\ UNCHANGED <<agents, tasks_completed, tasks_failed>>
          ELSE /\ agents' = AvailableAgents(cfg)
               /\ pc' = "tail"
               /\ UNCHANGED <<status, resultVars>>
       /\ faults' = (faults \/ collaborator_raises)
  /\ ResetFields
  /\ UNCHANGED <<cfg, phaseIdx, perf, batchVars, scoreVars, wiring, current_location,
                 simVars, runVars>>

\* _execute_phase(PREPARATION / COOKING): the task list comes from the task
\* generator (empty when no recipe is cached); COOKING may trigger a crisis;
\* the batch is parallel or sequential by scenario_config.parallel_tasks
TaskPhase ==
  /\ AtPhase("preparation") \/ AtPhase("cooking")
  /\ entered' = Append(entered, Phases[phaseIdx])
  /\ \/ /\ GeneratorRaises(wiring, cfg)
        /\ RaiseOut
        /\ UNCHANGED <<tasks_completed, tasks_failed, perf, batchVars, crisis_events, faults>>
     \/ /\ RaiseOut
        /\ faults' = TRUE
        /\ UNCHANGED <<tasks_completed, tasks_failed, perf, batchVars, crisis_events>>
     \/ /\ \E crisis \in MaybeTriggerCrisis(Phases[phaseIdx], cfg) :
             crisis_events' = crisis_events + crisis
        /\ \E n \in GeneratedTasks(wiring, cfg) :
             StartBatch(n, IF cfg.parallel_tasks THEN "par" ELSE "seq")
        /\ UNCHANGED status
  /\ UNCHANGED <<cfg, phaseIdx, agents, efficiency_score, quality_score, wiring,
                 kitchenVars, runVars>>

\* _execute_phase(PLATING): one plating task per recipe, sequential
PlatingPhase ==
  /\ AtPhase("plating")
  /\ entered' = Append(entered, "plating")
  /\ StartBatch(cfg.recipes, "seq")
  /\ UNCHANGED <<cfg, status, phaseIdx, agents, scoreVars, wiring, kitchenVars, runVars>>

\* _execute_phase(SERVICE): computes the quality score, runs no task
ServicePhase ==
  /\ AtPhase("service")
  /\ entered' = Append(entered, "service")
  /\ quality_score' = IF cfg.recipes = 0 THEN ZeroScore
                      ELSE ServiceQuality(tasks_completed, tasks_failed, cfg.time_pressure)
  /\ pc' = "tail"
  /\ UNCHANGED <<cfg, status, phaseIdx, agents, perf, resultVars, batchVars,
                 efficiency_score, crisis_events, envVars, kitchenVars, runVars>>

\* _execute_phase(CLEANUP): three cleaning tasks, sequential
CleanupPhase ==
  /\ AtPhase("cleanup")
  /\ entered' = Append(entered, "cleanup")
  /\ StartBatch(NumCleanupTasks, "seq")
  /\ UNCHANGED <<cfg, status, phaseIdx, agents, scoreVars, wiring, kitchenVars, runVars>>

\* _execute_single_task of a parallel batch: the actor call returns
TaskReturn(i) ==
  /\ i \in DOMAIN tstate
  /\ bmode = "par"
  /\ tstate[i].co = "calling"
  /\ tstate' = [tstate EXCEPT ![i].co = "ok", ![i].rec = "completed"]
  /\ perf' = [perf EXCEPT ![tstate[i].agent].completed = @ + 1]
  /\ UNCHANGED <<cfg, pc, status, phaseIdx, entered, agents, resultVars,
                 bmode, gstart, total_completed, total_failed,
                 base_completed, base_failed, timed_out_groups,
                 scoreVars, envVars, kitchenVars, runVars>>

\* _execute_single_task of a parallel batch: the actor call raises; "except
\* Exception" marks the task row FAILED, increments tasks_failed of the agent
\* and re-raises
TaskRaise(i) ==
  /\ i \in DOMAIN tstate
  /\ bmode = "par"
  /\ tstate[i].co = "calling"
  /\ tstate' = [tstate EXCEPT ![i].co = "exc", ![i].rec = "failed"]
  /\ faults' = TRUE
  /\ UNCHANGED perf
  /\ UNCHANGED <<cfg, pc, status, phaseIdx, entered, agents, resultVars,
                 bmode, gstart, total_completed, total_failed,
                 base_completed, base_failed, timed_out_groups,
                 scoreVars, wiring, kitchenVars, runVars>>

\* the end of one iteration of the batch loop of _execute_tasks_parallel:
\* the next group is created, or the loop ends
NextGroup(ts, fl) ==
  LET n == Len(ts)
      g2 == GroupEnd(gstart, n, agents) + 1
  IN IF g2 <= n
     THEN /\ Dispatch(ts, GroupOf(g2, n, agents), "par", g2, perf, fl)
          /\ pc' = "await"
     ELSE /\ tstate' = ts
          /\ gstart' = gstart
          /\ pc' = "summary"
          /\ faults' = fl
          /\ UNCHANGED perf

\* asyncio.gather(..., return_exceptions=True) returns before the timeout:
\* every task of the group has finished; the results are counted
GatherReturns ==
  /\ pc = "await"
  /\ LET G == GroupOf(gstart, Len(tstate), agents) IN
       /\ GatherDone(tstate, G)
       /\ total_completed' = total_completed + GatherCompleted(tstate, G)
       /\ total_failed' = total_failed + GatherFailed(tstate, G)
       /\ error_log' = error_log + GatherFailed(tstate, G)
       /\ NextGroup(LogFailed(tstate, G), faults)
  /\ UNCHANGED <<cfg, status, phaseIdx, entered, agents,
                 tasks_completed, tasks_failed, bmode,
                 base_completed, base_failed, timed_out_groups,
                 scoreVars, wiring, kitchenVars, runVars>>

\* the 30 s timeout of wait_for fires while a task of the group is running
BatchTimeout ==
  /\ pc = "await"
  /\ LET G == GroupOf(gstart, Len(tstate), agents)
         ts1 == CancelAndWait(tstate, G)
     IN /\ \E i \in G : tstate[i].co \in InFlight
        /\ total_failed' = total_failed + TimeoutNotDone(ts1, G)
        /\ NextGroup(ts1, TRUE)
  /\ timed_out_groups' = timed_out_groups + 1
  /\ UNCHANGED <<cfg, status, phaseIdx, entered, agents, resultVars,
                 bmode, total_completed, base_completed, base_failed,
                 scoreVars, wiring, kitchenVars, runVars>>

\* the end of _execute_tasks_parallel: the totals are added to the result and
\* the agent performance summary loop runs (its database session may raise)
BatchSummary ==
  /\ pc = "summary"
  /\ LET m == SummaryIncrement(perf, agents) IN
       \/ /\ tasks_completed' = tasks_completed + total_completed + m
          /\ tasks_failed' = tasks_failed + total_failed
          /\ pc' = "tail"
          /\ UNCHANGED <<status, error_log, faults>>
       \/ /\ m > 0
          /\ \E j \in 0..(m - 1) :
               tasks_completed' = tasks_completed + total_completed + j
          /\ tasks_failed' = tasks_failed + total_failed
          /\ faults' = TRUE
          /\ RaiseOut
  /\ UNCHANGED <<cfg, phaseIdx, entered, agents, perf, batchVars, scoreVars, wiring,
                 kitchenVars, runVars>>

\* _execute_tasks_sequential: the awaited actor call returns, or raises; the
\* task is counted and the loop goes on to its next suspension
SeqTaskDone ==
  /\ pc = "seqawait"
  /\ bmode = "seq"
  /\ tstate[gstart].co = "calling"
  /\ \E returns \in BOOLEAN :
       LET a == tstate[gstart].agent
           ts1 == [tstate EXCEPT ![gstart].co = IF returns THEN "ok" ELSE "exc",
                                 ![gstart].rec = IF returns THEN "completed" ELSE "failed",
                                 ![gstart].logged = ~returns]
           pf1 == IF returns THEN [perf EXCEPT ![a].completed = @ + 1] ELSE perf
       IN SeqAdvance(ts1, gstart + 1, pf1,
                     IF returns THEN tasks_completed + 1 ELSE tasks_completed,
                     IF returns THEN tasks_failed ELSE tasks_failed + 1,
                     IF returns THEN error_log ELSE error_log + 1,
                     faults \/ ~returns)
  /\ UNCHANGED <<cfg, status, phaseIdx, entered, agents, bmode,
                 total_completed, total_failed, base_completed, base_failed,
                 timed_out_groups, scoreVars, wiring, kitchenVars, runVars>>

\* the rest of the phase and of the loop body of execute_scenario: in CLEANUP
\* agent_manager.cleanup() (may raise); then the early-termination check and
\* the step to the next phase
PhaseTail ==
  /\ pc = "tail"
  /\ \/ /\ Phases[phaseIdx] = "cleanup"
        /\ RaiseOut
        /\ faults' = TRUE
        /\ UNCHANGED phaseIdx
     \/ /\ IF status \in {"FAILED", "CANCELLED"} \/ NextPhaseIndex(phaseIdx) > Len(Phases)
           THEN pc' = "finalize" /\ UNCHANGED phaseIdx
           ELSE pc' = "loop" /\ phaseIdx' = NextPhaseIndex(phaseIdx)
        /\ UNCHANGED <<status, error_log, faults>>
  /\ UNCHANGED <<cfg, entered, agents, perf, tasks_completed, tasks_failed,
                 batchVars, scoreVars, wiring, kitchenVars, runVars>>

\* execute_scenario after the loop: the status is finalised and, for a run
\* that completed, the final scores are calculated; the result is stored and
\* saved, the completion event fires, the result is returned
Finalize ==
  /\ pc = "finalize"
  /\ status' = FinalizeStatus(status)
  /\ efficiency_score' = IF status = "RUNNING"
                         THEN CalculateEfficiency(tasks_completed, tasks_failed)
                         ELSE efficiency_score
  /\ pc' = "returned"
  /\ UNCHANGED <<cfg, phaseIdx, entered, agents, perf, resultVars, batchVars,
                 quality_score, crisis_events, envVars, kitchenVars, runVars>>

ExecNext ==
  \/ StartScenario
  \/ SetupPhase
  \/ TaskPhase
  \/ PlatingPhase
  \/ ServicePhase
  \/ CleanupPhase
  \/ \E i \in 1..MaxBatch : TaskReturn(i)
  \/ \E i \in 1..MaxBatch : TaskRaise(i)
  \/ GatherReturns
  \/ BatchTimeout
  \/ BatchSummary
  \/ SeqTaskDone
  \/ PhaseTail
  \/ Finalize

\* _execute_tasks_parallel is called with a list of n tasks
ExecuteTasksParallel ==
  /\ pc = "call"
  /\ \E n \in 0..MaxBatchTasks : StartBatch(n, "par")
  /\ UNCHANGED <<cfg, status, phaseIdx, entered, agents, scoreVars, wiring,
                 kitchenVars, runVars>>

BatchNext ==
  \/ ExecuteTasksParallel
  \/ \E i \in 1..MaxBatchTasks : TaskReturn(i)
  \/ \E i \in 1..MaxBatchTasks : TaskRaise(i)
  \/ GatherReturns
  \/ BatchTimeout
  \/ BatchSummary

\* ----- calls of execute_scenario on one executor, and cleanup() -----

\* "finally" of execute_scenario: the entry of the scenario id is deleted
\* from active_scenarios if there is one, whichever run put it there
DropActive(act, id) == act \ {id}

\* execute_scenario returns its result
RunReturns(rs, r, st) ==
  [rs EXCEPT ![r].status = st, ![r].pc = "returned", ![r].returned_status = st]

\* execute_scenario is called with a configuration whose scenario_id is id:
\* the result is created RUNNING, it becomes self.current_result, and the
\* scenario is entered in active_scenarios
RunStart(r, id) ==
  /\ runs[r].pc = "idle"
  /\ runs' = [runs EXCEPT ![r] = [id |-> id, pc |-> "phase", status |-> "RUNNING",
                                  phase |-> 1, returned_status |-> "none",
                                  messages_sent |-> 0, cleaned |-> FALSE]]
  /\ current_result' = r
  /\ active_scenarios' = active_scenarios \cup {id}
  /\ UNCHANGED <<execution_results, execution_metrics, execVars, kitchenVars>>

\* the current phase of run r suspends in an actor call
RunCall(r) ==
  /\ runs[r].pc = "phase"
  /\ runs[r].phase \in 2..Len(Phases)
  /\ runs' = [runs EXCEPT ![r].pc = "calling"]
  /\ UNCHANGED <<active_scenarios, execution_results, execution_metrics,
                 current_result, execVars, kitchenVars>>

\* the actor call of run r raises, which the batch absorbs: nothing is
\* recorded
RunCallDone(r) ==
  /\ runs[r].pc = "calling"
  /\ runs' = [runs EXCEPT ![r].pc = "phase"]
  /\ UNCHANGED <<active_scenarios, execution_results, execution_metrics,
                 current_result, execVars, kitchenVars>>

\* record_response_time and record_message on the result res
RecordMessage(rs, res) ==
  IF res = NoRun THEN rs ELSE [rs EXCEPT ![res].messages_sent = @ + 1]

\* the actor call of run r returns: _execute_single_task records the
\* response time and the message on self.current_result
RunCallReturns(r) ==
  /\ runs[r].pc = "calling"
  /\ ~ActorCallRaises(wiring)
  /\ \A q \in Runs : runs[q].messages_sent < MaxCount
  /\ runs' = RecordMessage([runs EXCEPT ![r].pc = "phase"], current_result)
  /\ UNCHANGED <<active_scenarios, execution_results, execution_metrics,
                 current_result, execVars, kitchenVars>>

\* the current phase of run r ends: the early-termination check, then the
\* next phase
RunPhaseDone(r) ==
  /\ runs[r].pc = "phase"
  /\ runs[r].phase \in 1..Len(Phases)
  /\ runs' = [runs EXCEPT ![r].phase = NextPhaseIndex(@),
                          ![r].pc = IF runs[r].status \in {"FAILED", "CANCELLED"}
                                       \/ NextPhaseIndex(runs[r].phase) > Len(Phases)
                                    THEN "finalize" ELSE "phase"]
  /\ UNCHANGED <<active_scenarios, execution_results, execution_metrics,
                 current_result, execVars, kitchenVars>>

\* an exception leaves the current phase of run r: "except Exception" sets
\* FAILED, "finally" drops the active scenario, the result is returned
RunPhaseRaises(r) ==
  /\ runs[r].pc = "phase"
  /\ runs' = RunReturns(runs, r, ExceptStatus)
  /\ active_scenarios' = DropActive(active_scenarios, runs[r].id)
  /\ UNCHANGED <<execution_results, execution_metrics, current_result,
                 execVars, kitchenVars>>

\* execute_scenario after the loop: the status is finalised and the result is
\* stored in execution_results under the scenario id; then the handlers of
\* scenario_completed are awaited
RunStore(r) ==
  /\ runs[r].pc = "finalize"
  /\ runs' = [runs EXCEPT ![r].status = FinalizeStatus(@), ![r].pc = "completing"]
  /\ execution_results' = [execution_results EXCEPT ![runs[r].id] = r]
  /\ UNCHANGED <<active_scenarios, execution_metrics, current_result,
                 execVars, kitchenVars>>

\* _update_execution_metrics: the counters
UpdateExecutionMetrics(m, st) ==
  [total_scenarios |-> m.total_scenarios + 1,
   successful_scenarios |-> m.successful_scenarios + (IF st = "COMPLETED" THEN 1 ELSE 0),
   failed_scenarios |-> m.failed_scenarios + (IF st = "COMPLETED" THEN 0 ELSE 1)]

\* the handlers are through: metrics, "finally", return
RunReturn(r) ==
  /\ runs[r].pc = "completing"
  /\ runs' = RunReturns(runs, r, runs[r].status)
  /\ execution_metrics' = UpdateExecutionMetrics(execution_metrics, runs[r].status)
  /\ active_scenarios' = DropActive(active_scenarios, runs[r].id)
  /\ UNCHANGED <<execution_results, current_result, execVars, kitchenVars>>

\* cleanup cancels every run whose scenario id is active
CancelTargetsActive(act, res, rs) ==
  {r \in Runs : rs[r].id \in act /\ rs[r].pc \notin {"idle", "returned"}}

\* cleanup(): the results it sets CANCELLED are those stored in
\* execution_results under a scenario id that is in active_scenarios
CancelTargets(act, res, rs) == {res[i] : i \in {j \in act : res[j] # NoRun}}

\* the calls of execute_scenario that are in progress
InProgress(rs) == {r \in Runs : rs[r].pc \notin {"idle", "returned"}}

\* ScenarioExecutor.cleanup(); with mark, the history field cleaned of the
\* runs it finds in progress is set
CleanupOf(mark) ==
  /\ runs' = [r \in Runs |->
                [runs[r] EXCEPT
                   !.status = IF r \in CancelTargets(active_scenarios,
                                                     execution_results, runs)
                              THEN "CANCELLED" ELSE @,
                   !.cleaned = @ \/ (mark /\ r \in InProgress(runs))]]
  /\ active_scenarios' = {}
  /\ UNCHANGED <<execution_results, execution_metrics, current_result,
                 execVars, kitchenVars>>

\* ScenarioExecutor.cleanup()
Cleanup == CleanupOf(FALSE)

\* ScenarioExecutor.cleanup(), the runs it finds in progress marked
CleanupMarked == CleanupOf(TRUE)

TrackNext ==
  \/ \E r \in Runs, id \in ScenarioIds : RunStart(r, id)
  \/ \E r \in Runs : RunCall(r)
  \/ \E r \in Runs : RunCallDone(r)
  \/ \E r \in Runs : RunCallReturns(r)
  \/ \E r \in Runs : RunPhaseDone(r)
  \/ \E r \in Runs : RunPhaseRaises(r)
  \/ \E r \in Runs : RunStore(r)
  \/ \E r \in Runs : RunReturn(r)
  \/ CleanupMarked

RunsNext ==
  \/ \E r \in Runs, id \in ScenarioIds : RunStart(r, id)
  \/ \E r \in Runs : RunCall(r)
  \/ \E r \in Runs : RunCallDone(r)
  \/ \E r \in Runs : RunPhaseDone(r)
  \/ \E r \in Runs : RunPhaseRaises(r)
  \/ \E r \in Runs : RunStore(r)
  \/ \E r \in Runs : RunReturn(r)
  \/ Cleanup

ServiceNext == ServicePhase

\* the simulation loop of the kitchen next to the COOKING phase of a run
CrisisNext ==
  \/ SimulationTick /\ UNCHANGED <<execVars, runVars>>
  \/ ResetKitchen /\ UNCHANGED <<execVars, runVars>>
  \/ TaskPhase

KitchenNext ==
  \/ SimulationTick /\ UNCHANGED <<execVars, runVars>>
  \/ ResetKitchen /\ UNCHANGED <<execVars, runVars>>

EnvNext ==
  \/ EnvTick /\ UNCHANGED <<execVars, runVars>>
  \/ ResetKitchen /\ UNCHANGED <<execVars, runVars>>

SimNext ==
  \/ \E l \in Loops : StartSimulation(l) /\ UNCHANGED <<execVars, runVars>>
  \/ \E l \in Loops : LoopResume(l) /\ UNCHANGED <<execVars, runVars>>
  \/ StopSimulation /\ UNCHANGED <<execVars, runVars>>

SpecExec == InitExec /\ [][ExecNext]_vars

SpecKitchen == InitKitchen /\ [][KitchenNext]_vars

SpecBatch == InitBatch /\ [][BatchNext]_vars

SpecRuns == InitRuns /\ [][RunsNext]_vars

SpecService == InitService /\ [][ServiceNext]_vars

SpecCrisis == InitCrisis /\ [][CrisisNext]_vars

SpecEnv == InitEnv /\ [][EnvNext]_vars

SpecSim == InitSim /\ [][SimNext]_vars

SpecTrack == InitTrack /\ [][TrackNext]_vars

\* ------------------------------------------------------------------------
\* Properties
\* ------------------------------------------------------------------------
TerminalStatus == {"COMPLETED", "FAILED", "CANCELLED"}

NoTaskInFlight == \A i \in DOMAIN tstate : tstate[i].co \notin InFlight

Kitchen == [occ |-> current_agents, loc |-> current_location]

\* C1: every station holds at most max_capacity occupants in every reachable
\* kitchen state, and a move of an agent to a station whose other occupants
\* already fill it is rejected: the agent is not added.
C1_CapacityInvariant ==
  /\ \A s \in Stations : Cardinality(current_agents[s]) <= max_capacity[s]
  /\ \A a \in DOMAIN current_location, t \in Stations :
       LET r == MoveAgentToStation(Kitchen, a, t) IN
       /\ \A s \in Stations : Cardinality(r.occ[s]) <= max_capacity[s]
       /\ Cardinality(current_agents[t] \ {a}) >= max_capacity[t] => a \notin r.occ[t]

\* a station is at capacity and a move of an active agent has been rejected:
\* the agent stands outside every station
C1_Witness ==
  \E s \in Stations, a \in ActiveAgents :
    /\ Cardinality(current_agents[s]) = max_capacity[s]
    /\ a \notin current_agents[s]
    /\ current_location[a] \in Stations
    /\ a \notin current_agents[current_location[a]]

SetupDone == Len(entered) >= 1 /\ ~AtPhase("setup")

\* C3: once SETUP has run and found zero available actors, the status of the
\* run is FAILED and no phase after SETUP has been entered.
C3_ZeroActorsFail ==
  (SetupDone /\ AvailableAgents(cfg) = 0) => (status = "FAILED" /\ entered = <<"setup">>)

\* C4: the phases entered are always a prefix of SETUP, PREPARATION, COOKING,
\* PLATING, SERVICE, CLEANUP, and the status is COMPLETED only when all six
\* have been entered and the run has left the loop.
C4_PhaseOrder ==
  /\ Len(entered) <= Len(Phases)
  /\ entered = SubSeq(Phases, 1, Len(entered))
  /\ status = "COMPLETED" => (entered = Phases /\ pc = "returned")

\* a run that completed
C4_Witness == status = "COMPLETED" /\ entered = Phases

\* C5: whenever the run stands between two phases (a phase is over, the next
\* not yet entered), no task of the last batch is still in flight; it holds
\* also after a group of the batch timed out.
C5_NoTaskAcrossPhases ==
  pc \in {"tail", "loop", "finalize", "returned"} => NoTaskInFlight

\* COOKING is about to be entered after a PREPARATION batch with a timed-out group
C5_Witness ==
  /\ AtPhase("cooking")
  /\ timed_out_groups > 0
  /\ \E i \in DOMAIN tstate : tstate[i].co = "cancelled"

\* C6: when a batch is over and one of its tasks raised, every task of the
\* batch has run to an outcome of its own (none was skipped or left running)
\* and the run is still RUNNING.
C6_FailureIsolation ==
  (pc \in {"summary", "tail"} /\ agents > 0 /\ \E i \in DOMAIN tstate : tstate[i].co = "exc")
    => /\ \A i \in DOMAIN tstate : tstate[i].co \in Resolved
       /\ status = "RUNNING"

\* a batch is over in which one task raised and another returned after it
C6_Witness ==
  /\ pc \in {"summary", "tail"}
  /\ \E i, j \in DOMAIN tstate : i < j /\ tstate[i].co = "exc" /\ tstate[j].co = "ok"

\* the batch that has just ended
BatchOver == pc = "tail" /\ bmode # "none" /\ agents > 0 /\ Len(tstate) > 0

AllTasks == DOMAIN tstate

\* C7: a batch of N tasks in which exactly one actor call failed and all the
\* others succeeded, with no timeout, has added N-1 to tasks_completed and 1
\* to tasks_failed.
C7_BatchCounts ==
  (/\ BatchOver
   /\ timed_out_groups = 0
   /\ Cardinality({i \in AllTasks : tstate[i].co = "exc"}) = 1
   /\ \A i \in AllTasks : tstate[i].co = "exc" => tstate[i].rec = "failed"
   /\ CountCo(tstate, AllTasks, {"ok"}) = Len(tstate) - 1)
    => /\ tasks_completed - base_completed = Len(tstate) - 1
       /\ tasks_failed - base_failed = 1

\* C8: a task cancelled by the timeout of its group is recorded in the
\* terminal state timed_out.
C8_TimedOutRecorded ==
  \A i \in DOMAIN tstate : tstate[i].co = "cancelled" => tstate[i].rec = "timed_out"

\* C9: the number of completed tasks a parallel batch reports counts every
\* task whose actor call returned, also in a group that timed out afterwards.
C9_CompletedBeforeTimeout ==
  (pc = "summary" /\ timed_out_groups > 0)
    => total_completed >= CountCo(tstate, AllTasks, {"ok"})

\* C10: a batch that was run has added to tasks_completed and tasks_failed,
\* together with its timed-out tasks, exactly the number of its tasks.
C10_NoTaskLost ==
  BatchOver =>
    (tasks_completed - base_completed) + (tasks_failed - base_failed)
      + CountCo(tstate, AllTasks, {"cancelled"}) = Len(tstate)

\* the group of the parallel batch that is being awaited
CurrentGroup == GroupOf(gstart, Len(tstate), agents)

\* C11: while a group of a parallel batch is awaited, the group holds at most
\* min(number of agents, 4) tasks, and any two tasks of the group have
\* different agents; so no agent has two tasks of one group in flight.
C11_GroupDistinctAgents ==
  (pc = "await" /\ bmode = "par") =>
    /\ Cardinality(CurrentGroup) <= Min(agents, ParallelCap)
    /\ Cardinality(CurrentGroup) <= ParallelCap
    /\ \A i, j \in CurrentGroup : i # j => tstate[i].agent # tstate[j].agent
    /\ \A i \in CurrentGroup : tstate[i].agent \in 1..agents

\* a full group of four tasks is in flight with five agents, more tasks queued
C11_Witness ==
  /\ pc = "await" /\ bmode = "par"
  /\ agents > ParallelCap
  /\ Cardinality(CurrentGroup) = ParallelCap
  /\ \A i \in CurrentGroup : tstate[i].co \in InFlight
  /\ \E i \in DOMAIN tstate : tstate[i].co = "queued"

\* C12: while a group of a parallel batch is awaited, every task of an earlier
\* group has resolved, every task of the group has been dispatched and every
\* task of a later group is still queued; when the batch is over no task is
\* left queued, whether or not a group timed out.
C12_GroupOrder ==
  /\ (pc = "await" /\ bmode = "par") =>
        \A i \in DOMAIN tstate :
          /\ i < gstart => tstate[i].co \in Resolved
          /\ i \in CurrentGroup => tstate[i].co # "queued"
          /\ i > GroupEnd(gstart, Len(tstate), agents) => tstate[i].co = "queued"
  /\ (pc \in {"summary", "tail"} /\ bmode = "par" /\ agents > 0) =>
        \A i \in DOMAIN tstate : tstate[i].co \in Resolved

\* the first group timed out and a task of the second group is in flight
C12_Witness ==
  /\ pc = "await" /\ bmode = "par"
  /\ gstart > 1
  /\ timed_out_groups > 0
  /\ \E i \in DOMAIN tstate : i < gstart /\ tstate[i].co = "cancelled"
  /\ \E i \in CurrentGroup : tstate[i].co \in InFlight

\* run r is set CANCELLED by the step
BecomesCancelled(r) == runs[r].status # "CANCELLED" /\ runs'[r].status = "CANCELLED"

\* C13: the status of a run becomes CANCELLED only in a step of cleanup(), the
\* external cancellation signal, and only for a run that has no actor call in
\* flight; no other step of the executor sets CANCELLED.
C13_CancelledOnlyBySignal ==
  [][\A r \in Runs : BecomesCancelled(r) => (Cleanup /\ runs[r].pc # "calling")]_vars

\* a run was cancelled by cleanup() while its completion handlers ran
C13_Witness ==
  \E r \in Runs : runs[r].status = "CANCELLED" /\ runs[r].pc = "completing"

\* C14: the status of a result that execute_scenario has returned stays the
\* status it was returned with.
C14_ReturnedImmutable ==
  \A r \in Runs : runs[r].pc = "returned" => runs[r].status = runs[r].returned_status

\* C15: when a batch is over, every task of it that failed or was cancelled by
\* the timeout has an entry in the error log, and while the run is inside its
\* phases the error log has at least tasks_failed entries.
C15_FailuresLogged ==
  /\ BatchOver =>
        \A i \in AllTasks : tstate[i].co \in {"exc", "cancelled"} => tstate[i].logged
  /\ pc # "returned" => error_log >= tasks_failed

\* C16: a step that writes a per-agent performance counter happens only once
\* the actor calls of the group have all returned: no task whose call was in
\* flight before the step is still in flight after it.
C16_CountersOnlyInFold ==
  [][perf' # perf =>
       \A i \in DOMAIN tstate :
         (tstate[i].co \in InFlight /\ i \in DOMAIN tstate') => tstate'[i].co \notin InFlight]_vars

\* a / b = c / d for fractions
SameScore(x, y) == x.num * y.den = y.num * x.den

\* C17: in a run that ended COMPLETED, efficiency_score is tasks_completed /
\* (tasks_completed + tasks_failed), and 0 when no task was counted; it lies
\* in [0, 1].
C17_Efficiency ==
  status = "COMPLETED" =>
    /\ efficiency_score.den > 0
    /\ 0 <= efficiency_score.num /\ efficiency_score.num <= efficiency_score.den
    /\ IF tasks_completed + tasks_failed = 0
       THEN efficiency_score.num = 0
       ELSE efficiency_score.num * (tasks_completed + tasks_failed)
              = tasks_completed * efficiency_score.den

\* a run completed with both completed and failed tasks counted
C17_Witness ==
  status = "COMPLETED" /\ tasks_completed > 0 /\ tasks_failed > 0

\* SERVICE has just run
ServiceDone == pc = "tail" /\ phaseIdx = 5 /\ Phases[phaseIdx] = "service"

\* the quality score as specified: the failure penalty is taken on
\* failed / (completed + failed)
ServiceQualityOfTotal(tc, tf, tp) ==
  LET m == IF tc + tf > 0 THEN tc + tf ELSE 1
      fail == IF tf > 0 THEN 30 * tf ELSE 0
      press == IF tp > 10 THEN 2 * (tp - 10) * m ELSE 0
  IN Clamp01([num |-> 80 * m - fail - press, den |-> 100 * m])

\* C18: after SERVICE of a scenario with a recipe, quality_score is 0.8 minus
\* 0.3 * failed / (completed + failed) minus 0.2 * max(0, time_pressure - 1),
\* clamped to [0, 1], for the task counters of the run at that time.
C18_ServiceQuality ==
  (ServiceDone /\ cfg.recipes > 0) =>
    SameScore(quality_score,
              ServiceQualityOfTotal(tasks_completed, tasks_failed, cfg.time_pressure))

\* C19: a run with at least one agent, crisis_probability = 0 and no failing
\* or timed-out collaborator call returns COMPLETED with tasks_failed = 0 and
\* efficiency_score = 1.
C19_HappyPath ==
  (pc = "returned" /\ agents >= 1 /\ cfg.crisis_probability = 0 /\ ~faults) =>
    /\ status = "COMPLETED"
    /\ tasks_failed = 0
    /\ efficiency_score.num = efficiency_score.den

\* a crisis is triggered by the step: by the kitchen's simulation tick
\* (crisis_active is set) or by the executor's COOKING phase (an event is
\* added to crisis_events)
CrisisTriggered ==
  \/ ~crisis_active /\ crisis_active'
  \/ crisis_events' > crisis_events

\* C20: a step that triggers a crisis starts with no crisis active and finds
\* the kitchen in mode SERVICE or RUSH.
C20_CrisisOnlyWhenBusy ==
  [][CrisisTriggered => (~crisis_active /\ kstate' \in {"service", "rush"})]_vars

\* the conditions a tick derives from an occupancy when nothing precedes it
ConditionsOf(occ, eq) == UpdateEnvironment(DefaultConditions, occ, eq)

\* C21: the mode a tick's environment update leaves is the step function of
\* the number of station occupants it counted (IDLE iff 0, PREP iff 1..3,
\* SERVICE iff 4..6, RUSH iff more than 6), and in RUSH the rush multiplier
\* is 1.0 + 0.2 * (occupants - 6).
C21_ModeStepFunction ==
  [][EnvTick =>
       LET n == TotalAgents(current_agents) IN
       /\ (kstate' = "idle") <=> (n = 0)
       /\ (kstate' = "prep") <=> (n >= 1 /\ n <= 3)
       /\ (kstate' = "service") <=> (n >= 4 /\ n <= 6)
       /\ (kstate' = "rush") <=> (n > 6)
       /\ (kstate' = "rush") => conditions'.rush_multiplier = 10 + 2 * (n - 6)]_vars

\* a tick has found seven occupants: RUSH with multiplier 1.2
C21_Witness ==
  /\ kstate = "rush"
  /\ conditions.noise_level = 7
  /\ conditions.rush_multiplier = 12

\* C22: the temperature, humidity, noise level and rush multiplier a tick
\* leaves are those any tick leaves at the same station and equipment
\* occupancy, whatever the occupancy was before.
C22_ConditionsFromOccupancy ==
  [][EnvTick => conditions' = ConditionsOf(current_agents, equipment)]_vars

\* the state reset_kitchen is to leave
Baseline ==
  /\ \A s \in Stations : current_agents[s] = {} /\ cleanliness[s] = Clean
  /\ \A e \in EquipmentNames :
       /\ equipment[e].is_available
       /\ equipment[e].in_use_by = NoAgent
       /\ ~equipment[e].maintenance_required
       /\ equipment[e].condition = "band"
  /\ kstate = "idle"
  /\ conditions = DefaultConditions
  /\ ~crisis_active

\* C23: from any reachable kitchen state reset_kitchen leaves the baseline:
\* every station empty and clean, every piece of equipment available, in use
\* by nobody, without maintenance due and with a condition in [0.8, 1.0], the
\* mode IDLE, the conditions at their defaults and no crisis active.
C23_ResetBaseline ==
  [][ResetKitchen => Baseline']_vars

\* the baseline with an active agent's row still naming a station: the
\* kitchen was reset after a tick had moved the agent there
C23_Witness ==
  /\ Baseline
  /\ \E a \in ActiveAgents : current_location[a] \in Stations

\* C24: removing an agent from a station it does not occupy, a second
\* removal included, changes no occupant set and raises no error.
C24_RemoveIdempotent ==
  \A a \in DOMAIN current_location, s \in Stations :
    LET r1 == RemoveAgent(current_agents, s, a)
        r2 == RemoveAgent(r1.occ, s, a)
    IN /\ ~r1.raised
       /\ ~r2.raised
       /\ r2.occ = r1.occ
       /\ a \notin current_agents[s] => r1.occ = current_agents

\* an active agent whose row names a station it no longer occupies: its next
\* move removes a non-occupant
C24_Witness ==
  \E a \in ActiveAgents :
    /\ current_location[a] \in Stations
    /\ a \notin current_agents[current_location[a]]
    /\ \E s \in Stations : current_agents[s] # {}

\* C26: a move to a full station leaves the kitchen as it was, and the
\* station an agent's row names has the agent among its occupants.
C26_RejectedMoveKeepsAgent ==
  /\ \A a \in DOMAIN current_location :
       current_location[a] \in Stations => a \in current_agents[current_location[a]]
  /\ \A a \in DOMAIN current_location :
       \A t \in Stations \ {current_location[a]} :
         IsFull(current_agents, t) => MoveAgentToStation(Kitchen, a, t) = Kitchen

\* the calls of start_simulation that are inside the while loop
ActiveLoops == {l \in Loops : loop_pc[l] = "sleeping"}

\* C30: at most one simulation loop of the engine goes on ticking, under
\* any interleaving of start_simulation and stop_simulation.
C30_SingleLoop ==
  is_running => Cardinality(ActiveLoops) <= 1

\* C25: cleanup() leaves active_scenarios empty, and the result of a run that
\* was in progress when cleanup() was called has status CANCELLED when the
\* run has returned.
C25_CleanupCancels ==
  [][/\ CleanupMarked => active_scenarios' = {}
     /\ \A r \in Runs :
          (runs'[r].pc = "returned" /\ runs'[r].cleaned)
            => runs'[r].returned_status = "CANCELLED"]_vars

\* C27: every call of execute_scenario that has returned has a result stored
\* in execution_results under its scenario id and was counted once in
\* execution_metrics: total_scenarios = successful_scenarios +
\* failed_scenarios = the number of returned calls.
C27_ReturnedStoredAndCounted ==
  /\ \A r \in Runs : runs[r].pc = "returned" => execution_results[runs[r].id] # NoRun
  /\ execution_metrics.total_scenarios
       = execution_metrics.successful_scenarios + execution_metrics.failed_scenarios
  /\ execution_metrics.total_scenarios = Cardinality({r \in Runs : runs[r].pc = "returned"})

\* C28: the message and response time of a task are recorded on the result
\* of the run the task belongs to: when an actor call of run r returns, the
\* message count of r's result grows by one and no other result's changes.
C28_RecordedOnOwnResult ==
  [][\A r \in Runs :
       RunCallReturns(r) =>
         /\ runs'[r].messages_sent = runs[r].messages_sent + 1
         /\ \A q \in Runs \ {r} : runs'[q].messages_sent = runs[q].messages_sent]_vars

\* C29: a scenario id is a key of active_scenarios exactly while a call of
\* execute_scenario for that id is in progress.
C29_ActiveIffInProgress ==
  \A id \in ScenarioIds :
    id \in active_scenarios <=> (\E r \in InProgress(runs) : runs[r].id = id)

====
